---- MODULE Spec2Model ----
(***************************************************************************)
(* Model of the analog neutral-atom compiler (pasqal-io/community-quack).  *)
(*                                                                         *)
(*   - validateGraph and CompileMIS, the two pure functions of the CLI and *)
(*     of package analog, computed edge by edge as the Go code does;       *)
(*   - the batch pipeline of cmd/compiler/main.go: main, the goroutines    *)
(*     readFiles, processGraphs, compileGraphs and the anonymous collector,*)
(*     the three buffered channels and the WaitGroup.                      *)
(*                                                                         *)
(* Three specifications share the variables:                               *)
(*   EncodeSpec  one graph drawn from a bounded set, validated and encoded *)
(*               (the library use of the README example);                  *)
(*   Spec        the batch pipeline over a batch of input files;           *)
(*   FairSpec    Spec with weak fairness of every goroutine.               *)
(*                                                                         *)
(* float64 parameters h and j are represented by integers: the code only   *)
(* compares them with 0 and copies them into the maps.                     *)
(***************************************************************************)
EXTENDS Integers, Sequences, FiniteSets, TLC

\* ------------------------------------------------------------------ bounds
\* Largest vertex count of a drawn graph (endpoints range over -1..MaxVertices).
MaxVertices == 3
\* Longest edge list of a drawn graph.
MaxEdges == 2
\* Largest number of -input flags of a batch.
MaxFiles == 2

\* ------------------------------------------------------------- Go values
\* A Go map: nil (the zero value) or made; kv is its content.
EmptyFcn == [x \in {} |-> 0]
NilMap == [isNil |-> TRUE, kv |-> EmptyFcn]
MakeMap == [isNil |-> FALSE, kv |-> EmptyFcn]

\* analog.Graph{}: the zero value returned next to a read error.
ZeroGraph == [Vertices |-> 0, Edges |-> <<>>]

\* A sentinel built with made, empty maps instead of the zero value.
EmptyIsingModelMade == [Spins |-> 0, Interactions |-> MakeMap, ExternalField |-> MakeMap]

\* analog.IsingModel{}: the zero value CompileMIS returns on a duplicate edge.
EmptyIsingModel == [Spins |-> 0, Interactions |-> NilMap, ExternalField |-> NilMap]

\* error values: nil, or an error with the text's kind and the value it prints.
NoError == [kind |-> "nil", detail |-> <<>>]
ErrVertices == [kind |-> "vertices", detail |-> <<>>]
ErrEdgeIndices(graph, edge) == [kind |-> "edge", detail |-> <<graph.Vertices - 1, edge>>]
ErrLoop(edge) == [kind |-> "loop", detail |-> <<edge>>]
ErrRead == [kind |-> "read", detail |-> <<>>]
ErrMarshal == [kind |-> "marshal", detail |-> <<>>]

\* The loop of validateGraph with the self-loop test before the range test.
RECURSIVE validateEdgesLoopFirst(_, _)
validateEdgesLoopFirst(graph, k) ==
    IF k > Len(graph.Edges) THEN NoError
    ELSE LET edge == graph.Edges[k] IN
         IF edge[1] = edge[2] THEN ErrLoop(edge)
         ELSE IF edge[1] < 0 \/ edge[1] >= graph.Vertices
                    \/ edge[2] < 0 \/ edge[2] >= graph.Vertices
         THEN ErrEdgeIndices(graph, edge)
         ELSE validateEdgesLoopFirst(graph, k + 1)

\* ---------------------------------------------------------- validateGraph
\* The loop body of validateGraph for edge k, then the rest of the loop.
RECURSIVE validateEdges(_, _)
validateEdges(graph, k) ==
    IF k > Len(graph.Edges) THEN NoError
    ELSE LET edge == graph.Edges[k] IN
         IF edge[1] < 0 \/ edge[1] >= graph.Vertices
               \/ edge[2] < 0 \/ edge[2] >= graph.Vertices
         THEN ErrEdgeIndices(graph, edge)
         ELSE IF edge[1] = edge[2] THEN ErrLoop(edge)
         ELSE validateEdges(graph, k + 1)

\* validateGraph with the vertex-count test written < instead of <=.
validateGraphZeroVertices(graph) ==
    IF graph.Vertices < 0 THEN ErrVertices ELSE validateEdges(graph, 1)

validateGraph(graph) ==
    IF graph.Vertices <= 0 THEN ErrVertices ELSE validateEdges(graph, 1)

\* The key with the larger index first.
EdgeKeyLargerFirst(edge) ==
    IF edge[1] < edge[2] THEN <<edge[2], edge[1]>> ELSE <<edge[1], edge[2]>>

\* ------------------------------------------------------------- CompileMIS
\* The key of an edge without the reordering: endpoints as given.
EdgeKeyAsGiven(edge) == <<edge[1], edge[2]>>

\* The key under which CompileMIS stores an edge: smaller index first.
EdgeKey(edge) ==
    IF edge[1] < edge[2] THEN <<edge[1], edge[2]>> ELSE <<edge[2], edge[1]>>

\* The edge loop returning the model built so far when it meets a key that
\* is already present.
RECURSIVE compileEdgesPartial(_, _, _, _)
compileEdgesPartial(ising, edges, k, jj) ==
    IF k > Len(edges) THEN ising
    ELSE LET key == EdgeKey(edges[k]) IN
         IF key \in DOMAIN ising.Interactions.kv THEN ising
         ELSE compileEdgesPartial(
                 [ising EXCEPT !.Interactions.kv = (key :> jj) @@ @],
                 edges, k + 1, jj)

\* The edge loop of CompileMIS from edge k on; a key already present returns
\* the zero IsingModel.
RECURSIVE compileEdges(_, _, _, _)
compileEdges(ising, edges, k, jj) ==
    IF k > Len(edges) THEN ising
    ELSE LET key == EdgeKey(edges[k]) IN
         IF key \in DOMAIN ising.Interactions.kv THEN EmptyIsingModel
         ELSE compileEdges(
                 [ising EXCEPT !.Interactions.kv = (key :> jj) @@ @],
                 edges, k + 1, jj)

CompileMIS(graph, hh, jj) ==
    compileEdges(
        [Spins |-> graph.Vertices,
         Interactions |-> MakeMap,
         ExternalField |->
            [isNil |-> FALSE, kv |-> [i \in 0..(graph.Vertices - 1) |-> hh]]],
        graph.Edges, 1, jj)

\* ------------------------------------------------------------------ state
VARIABLES
    \* command line and file system
    inputFiles,     \* the -input paths, in order; path i is the number i
    disk,           \* path -> what os.ReadFile and json.Unmarshal find there
    h, j,           \* the -h and -j flags
    jsonOutput,     \* the -json flag
    \* main
    mainPc, exitCode, wg,
    \* channels: buffer, closed flag (capacity is len(inputFiles))
    fileChan, fileClosed,
    graphChan, graphClosed,
    resultChan, resultClosed,
    \* goroutines: position and the value held between two channel operations
    readPc, readIdx,
    procPc, procHeld,
    compPc, compHeld,
    collPc, collHeld,
    \* what the process wrote to stdout and stderr, in order
    output,
    panicked,       \* a goroutine panicked (send on a closed channel)
    \* history: every send on resultChan, the origins sent on graphChan and
    \* passed to CompileMIS, and the stages that sent on or received from
    \* each channel
    sentLog, graphLog, encodedLog, writers, readers,
    \* one library call on one graph (EncodeSpec)
    encPc, encGraph, encErr, encModel,
    \* the k-coloring page (FrontSpec): its number fields, its edge list,
    \* the object whose JSON text it shows, and the last alert it raised
    numVertices, numColors, edges, rydbergHamiltonian, alerted

pipeVars == <<inputFiles, disk, jsonOutput, mainPc, exitCode, wg,
              fileChan, fileClosed, graphChan, graphClosed,
              resultChan, resultClosed, readPc, readIdx, procPc, procHeld,
              compPc, compHeld, collPc, collHeld, output, panicked,
              sentLog, graphLog, encodedLog,
              writers, readers>>
encVars == <<encPc, encGraph, encErr, encModel>>
feVars == <<numVertices, numColors, edges, rydbergHamiltonian, alerted>>
vars == <<pipeVars, encVars, feVars, h, j>>

\* ------------------------------------------------------------ input sets
\* Flag settings of the batch runs: the defaults (-h=-1.0 -j=2.0), a
\* non-negative h with -json, and a non-positive j with either sign of h.
FlagSettings ==
    { [h |-> -1, j |-> 2, json |-> FALSE],
      [h |-> 1, j |-> 2, json |-> TRUE],
      [h |-> -1, j |-> 0, json |-> FALSE],
      [h |-> 0, j |-> -1, json |-> TRUE] }

Endpoints == (-1)..MaxVertices
EdgeLists == UNION {[1..n -> Endpoints \X Endpoints] : n \in 0..MaxEdges}
Graphs == [Vertices : (-1)..MaxVertices, Edges : EdgeLists]

\* File contents of the batch runs: a file that cannot be read or parsed, and
\* files holding a graph that fails validation, two valid graphs, and a valid
\* graph that lists one edge twice.
Unreadable == [readable |-> FALSE, graph |-> ZeroGraph]
GraphFile(graph) == [readable |-> TRUE, graph |-> graph]
SampleGraphs ==
    { [Vertices |-> 0, Edges |-> <<>>],
      [Vertices |-> 2, Edges |-> << <<0, 1>> >>],
      [Vertices |-> 3, Edges |-> << <<2, 0>> >>],
      [Vertices |-> 2, Edges |-> << <<0, 1>>, <<1, 0>> >>] }
FileContents == {Unreadable} \cup {GraphFile(g) : g \in SampleGraphs}

\* readGraphFromJSON: the graph of the file, or the zero graph and an error.
readGraphFromJSON(filePath) ==
    IF disk[filePath].readable
    THEN [graph |-> disk[filePath].graph, err |-> NoError]
    ELSE [graph |-> ZeroGraph, err |-> ErrRead]

\* Channels made one slot smaller than the batch.
chanCapOneLess == Len(inputFiles) - 1

\* --------------------------------------------------------------- channels
\* make(chan T, len(inputFiles)): the capacity of each of the three channels.
chanCap == Len(inputFiles)

\* A send proceeds when the buffer has room; on a closed channel it panics.
CanSend(buffer, closed) == closed \/ Len(buffer) < chanCap
\* A receive (one iteration of for-range) proceeds on an item or on close.
CanRecv(buffer, closed) == buffer # <<>> \/ closed

\* wg.Add with one stage forgotten.
WgAddTwo == 3 - 1

\* wg.Add(3)
WgAdd == 3

NoItem == [none |-> TRUE]

\* Goroutines run from the go statements until main returns or one panics.
Running == mainPc \in {"wait", "close", "print", "return"} /\ ~panicked

\* ProcessingResult; origin is history, not a Go field: the input path the
\* result descends from.
ProcessingResult(filePath, isingModel, err, origin) ==
    [FilePath |-> filePath, IsingModel |-> isingModel, Error |-> err,
     origin |-> origin]

\* A line of output.
Line(stream, text, filePath, value) ==
    [stream |-> stream, text |-> text, FilePath |-> filePath, value |-> value]

\* ------------------------------------------------------------------- main
\* main with the test of j written < 0 instead of <= 0.
MainStartZeroJ ==
    /\ mainPc = "start"
    /\ IF Len(inputFiles) = 0 \/ j < 0
       THEN /\ output' = Append(output, Line("stderr", "Error", <<>>, <<>>))
            /\ mainPc' = "exited"
            /\ exitCode' = 1
            /\ UNCHANGED <<wg, readPc, procPc, compPc, collPc>>
       ELSE /\ wg' = 3
            /\ readPc' = "send"
            /\ procPc' = "recv"
            /\ compPc' = "recv"
            /\ collPc' = "recv"
            /\ mainPc' = "wait"
            /\ UNCHANGED <<exitCode, output>>
    /\ UNCHANGED <<inputFiles, disk, jsonOutput, h, j, fileChan, fileClosed,
                   graphChan, graphClosed, resultChan, resultClosed, readIdx,
                   procHeld, compHeld, collHeld, panicked, sentLog, graphLog,
                   encodedLog, writers, readers, encVars, feVars>>

\* Flag checks, make(chan ...), wg.Add(3) and the four go statements.  A
\* goroutine that is started is not yet scheduled, so starting the four in
\* one step loses no interleaving.
MainStart ==
    /\ mainPc = "start"
    /\ IF Len(inputFiles) = 0
       THEN /\ output' = Append(output,
                   Line("stderr", "Error: At least one input file must be specified", <<>>, <<>>))
            /\ mainPc' = "exited"
            /\ exitCode' = 1
            /\ UNCHANGED <<wg, readPc, procPc, compPc, collPc>>
       ELSE LET warn == IF h >= 0
                        THEN <<Line("stderr", "Warning: h is typically negative for MIS problems", <<>>, <<>>)>>
                        ELSE <<>>
            IN IF j <= 0
               THEN /\ output' = output \o warn \o
                         <<Line("stderr", "Error: j must be positive", <<>>, <<>>)>>
                    /\ mainPc' = "exited"
                    /\ exitCode' = 1
                    /\ UNCHANGED <<wg, readPc, procPc, compPc, collPc>>
               ELSE /\ output' = output \o warn
                    /\ wg' = WgAdd
                    /\ readPc' = "send"
                    /\ procPc' = "recv"
                    /\ compPc' = "recv"
                    /\ collPc' = "recv"
                    /\ mainPc' = "wait"
                    /\ UNCHANGED exitCode
    /\ UNCHANGED <<inputFiles, disk, jsonOutput, h, j, fileChan, fileClosed,
                   graphChan, graphClosed, resultChan, resultClosed, readIdx,
                   procHeld, compHeld, collHeld, panicked, sentLog, graphLog,
                   encodedLog, writers, readers, encVars, feVars>>

\* wg.Wait() returning while one stage has not yet called wg.Done().
MainWaitEarly ==
    /\ mainPc = "wait" /\ ~panicked
    /\ wg <= 1
    /\ mainPc' = "close"
    /\ UNCHANGED <<inputFiles, disk, jsonOutput, h, j, exitCode, wg, fileChan,
                   fileClosed, graphChan, graphClosed, resultChan,
                   resultClosed, readPc, readIdx, procPc, procHeld, compPc,
                   compHeld, collPc, collHeld, output, panicked, sentLog,
                   graphLog, encodedLog, writers, readers, encVars, feVars>>

\* wg.Wait() returns when the counter is zero.
MainWait ==
    /\ mainPc = "wait" /\ ~panicked
    /\ wg = 0
    /\ mainPc' = "close"
    /\ UNCHANGED <<inputFiles, disk, jsonOutput, h, j, exitCode, wg, fileChan,
                   fileClosed, graphChan, graphClosed, resultChan,
                   resultClosed, readPc, readIdx, procPc, procHeld, compPc,
                   compHeld, collPc, collHeld, output, panicked, sentLog,
                   graphLog, encodedLog, writers, readers, encVars, feVars>>

\* close(resultChan) by a main that also takes what is left in the buffer
\* and prints it itself.
MainCloseAndDrain ==
    /\ mainPc = "close" /\ ~panicked
    /\ resultClosed' = TRUE
    /\ mainPc' = "print"
    /\ IF resultChan # <<>>
       THEN /\ resultChan' = Tail(resultChan)
            /\ output' = Append(output,
                   Line("stdout", "Result for", Head(resultChan).FilePath,
                        Head(resultChan).IsingModel))
            /\ readers' = [readers EXCEPT !["resultChan"] = @ \cup {"main"}]
       ELSE UNCHANGED <<resultChan, output, readers>>
    /\ UNCHANGED <<inputFiles, disk, jsonOutput, h, j, exitCode, wg, fileChan,
                   fileClosed, graphChan, graphClosed, readPc,
                   readIdx, procPc, procHeld, compPc, compHeld, collPc,
                   collHeld, panicked, sentLog, graphLog, encodedLog,
                   writers, encVars, feVars>>

\* close(resultChan)
MainClose ==
    /\ mainPc = "close" /\ ~panicked
    /\ resultClosed' = TRUE
    /\ mainPc' = "print"
    /\ UNCHANGED <<inputFiles, disk, jsonOutput, h, j, exitCode, wg, fileChan,
                   fileClosed, graphChan, graphClosed, resultChan, readPc,
                   readIdx, procPc, procHeld, compPc, compHeld, collPc,
                   collHeld, output, panicked, sentLog, graphLog, encodedLog,
                   writers, readers, encVars, feVars>>

\* fmt.Println("Compilation completed.")
MainPrint ==
    /\ mainPc = "print" /\ ~panicked
    /\ output' = Append(output, Line("stdout", "Compilation completed.", <<>>, <<>>))
    /\ mainPc' = "return"
    /\ UNCHANGED <<inputFiles, disk, jsonOutput, h, j, exitCode, wg, fileChan,
                   fileClosed, graphChan, graphClosed, resultChan,
                   resultClosed, readPc, readIdx, procPc, procHeld, compPc,
                   compHeld, collPc, collHeld, panicked, sentLog, graphLog,
                   encodedLog, writers, readers, encVars, feVars>>

\* main returns: the process exits with code 0 and every goroutine stops
\* wherever it is.
MainReturn ==
    /\ mainPc = "return" /\ ~panicked
    /\ mainPc' = "done"
    /\ exitCode' = 0
    /\ UNCHANGED <<inputFiles, disk, jsonOutput, h, j, wg, fileChan,
                   fileClosed, graphChan, graphClosed, resultChan,
                   resultClosed, readPc, readIdx, procPc, procHeld, compPc,
                   compHeld, collPc, collHeld, output, panicked, sentLog,
                   graphLog, encodedLog, writers, readers, encVars, feVars>>

cfgVars == <<inputFiles, disk, jsonOutput, h, j>>
mainVars == <<mainPc, exitCode>>
\* An entry of sentLog: the result sent and the stage that sent it.
Sent(result, stage) == [result |-> result, by |-> stage]
Wrote(stage, chan) == [writers EXCEPT ![chan] = @ \cup {stage}]
Read(stage, chan) == [readers EXCEPT ![chan] = @ \cup {stage}]

\* -------------------------------------------------------------- readFiles
\* fileChan <- filePath, for the next path of inputFiles.
ReadSend ==
    /\ Running /\ readPc = "send"
    /\ readIdx <= Len(inputFiles)
    /\ CanSend(fileChan, fileClosed)
    /\ IF fileClosed
       THEN panicked' = TRUE /\ UNCHANGED <<fileChan, readIdx, writers>>
       ELSE /\ fileChan' = Append(fileChan, inputFiles[readIdx])
            /\ readIdx' = readIdx + 1
            /\ writers' = Wrote("readFiles", "fileChan")
            /\ UNCHANGED panicked
    /\ UNCHANGED <<cfgVars, mainVars, wg, fileClosed, graphChan, graphClosed,
                   resultChan, resultClosed, readPc, procPc, procHeld, compPc,
                   compHeld, collPc, collHeld, output, sentLog, graphLog,
                   encodedLog, readers, encVars, feVars>>

\* close(fileChan), after the loop.
ReadClose ==
    /\ Running /\ readPc = "send"
    /\ readIdx > Len(inputFiles)
    /\ fileClosed' = TRUE
    /\ panicked' = fileClosed
    /\ readPc' = "wgDone"
    /\ UNCHANGED <<cfgVars, mainVars, wg, fileChan, graphChan, graphClosed,
                   resultChan, resultClosed, readIdx, procPc, procHeld, compPc,
                   compHeld, collPc, collHeld, output, sentLog, graphLog,
                   encodedLog, writers, readers, encVars, feVars>>

\* the deferred wg.Done()
ReadDone ==
    /\ Running /\ readPc = "wgDone"
    /\ wg' = wg - 1
    /\ readPc' = "done"
    /\ UNCHANGED <<cfgVars, mainVars, fileChan, fileClosed, graphChan,
                   graphClosed, resultChan, resultClosed, readIdx, procPc,
                   procHeld, compPc, compHeld, collPc, collHeld, output,
                   panicked, sentLog, graphLog, encodedLog, writers, readers,
                   encVars, feVars>>

\* ---------------------------------------------------------- processGraphs
\* The loop body of processGraphs without the call of validateGraph.
processFileNoValidate(filePath) ==
    LET r == readGraphFromJSON(filePath) IN
    IF r.err # NoError
    THEN [to |-> "resultChan",
          item |-> ProcessingResult(<<"file", filePath>>, EmptyIsingModel, r.err, filePath)]
    ELSE [to |-> "graphChan",
          item |-> [graph |-> r.graph, origin |-> filePath]]

\* The loop body of processGraphs up to its send: where the item goes
\* ("resultChan" or "graphChan") and what is sent.
processFile(filePath) ==
    LET r == readGraphFromJSON(filePath) IN
    IF r.err # NoError
    THEN [to |-> "resultChan",
          item |-> ProcessingResult(<<"file", filePath>>, EmptyIsingModel, r.err, filePath)]
    ELSE LET err == validateGraph(r.graph) IN
         IF err # NoError
         THEN [to |-> "resultChan",
               item |-> ProcessingResult(<<"file", filePath>>, EmptyIsingModel, err, filePath)]
         ELSE [to |-> "graphChan",
               item |-> [graph |-> r.graph, origin |-> filePath]]

\* One iteration of for filePath := range fileChan up to the send, or the
\* end of the loop when fileChan is closed and drained.
ProcRecv ==
    /\ Running /\ procPc = "recv"
    /\ CanRecv(fileChan, fileClosed)
    /\ IF fileChan # <<>>
       THEN /\ fileChan' = Tail(fileChan)
            /\ procHeld' = processFile(Head(fileChan))
            /\ procPc' = "send"
            /\ readers' = Read("processGraphs", "fileChan")
       ELSE /\ procPc' = "close"
            /\ UNCHANGED <<fileChan, procHeld, readers>>
    /\ UNCHANGED <<cfgVars, mainVars, wg, fileClosed, graphChan, graphClosed,
                   resultChan, resultClosed, readPc, readIdx, compPc, compHeld,
                   collPc, collHeld, output, panicked, sentLog, graphLog,
                   encodedLog, writers, encVars, feVars>>

\* resultChan <- ProcessingResult{FilePath: filePath, Error: err}; continue
ProcSendResult ==
    /\ Running /\ procPc = "send"
    /\ procHeld.to = "resultChan"
    /\ CanSend(resultChan, resultClosed)
    /\ IF resultClosed
       THEN panicked' = TRUE /\ UNCHANGED <<resultChan, sentLog, writers, procPc, procHeld>>
       ELSE /\ resultChan' = Append(resultChan, procHeld.item)
            /\ sentLog' = Append(sentLog, Sent(procHeld.item, "processGraphs"))
            /\ writers' = Wrote("processGraphs", "resultChan")
            /\ procPc' = "recv"
            /\ procHeld' = NoItem
            /\ UNCHANGED panicked
    /\ UNCHANGED <<cfgVars, mainVars, wg, fileChan, fileClosed, graphChan,
                   graphClosed, resultClosed, readPc, readIdx, compPc,
                   compHeld, collPc, collHeld, output, graphLog, encodedLog,
                   readers, encVars, feVars>>

\* graphChan <- graph
ProcSendGraph ==
    /\ Running /\ procPc = "send"
    /\ procHeld.to = "graphChan"
    /\ CanSend(graphChan, graphClosed)
    /\ IF graphClosed
       THEN panicked' = TRUE /\ UNCHANGED <<graphChan, graphLog, writers, procPc, procHeld>>
       ELSE /\ graphChan' = Append(graphChan, procHeld.item)
            /\ graphLog' = Append(graphLog, procHeld.item.origin)
            /\ writers' = Wrote("processGraphs", "graphChan")
            /\ procPc' = "recv"
            /\ procHeld' = NoItem
            /\ UNCHANGED panicked
    /\ UNCHANGED <<cfgVars, mainVars, wg, fileChan, fileClosed, graphClosed,
                   resultChan, resultClosed, readPc, readIdx, compPc, compHeld,
                   collPc, collHeld, output, sentLog, encodedLog, readers,
                   encVars, feVars>>

\* The end of processGraphs without close(graphChan).
ProcCloseMissing ==
    /\ Running /\ procPc = "close"
    /\ procPc' = "wgDone"
    /\ UNCHANGED <<cfgVars, mainVars, wg, fileChan, fileClosed, graphChan,
                   graphClosed, resultChan, resultClosed, readPc, readIdx,
                   procHeld, compPc, compHeld, collPc, collHeld, output,
                   panicked, sentLog, graphLog, encodedLog, writers, readers,
                   encVars, feVars>>

\* close(graphChan), after the loop.
ProcClose ==
    /\ Running /\ procPc = "close"
    /\ graphClosed' = TRUE
    /\ panicked' = graphClosed
    /\ procPc' = "wgDone"
    /\ UNCHANGED <<cfgVars, mainVars, wg, fileChan, fileClosed, graphChan,
                   resultChan, resultClosed, readPc, readIdx, procHeld, compPc,
                   compHeld, collPc, collHeld, output, sentLog, graphLog,
                   encodedLog, writers, readers, encVars, feVars>>

\* the deferred wg.Done()
ProcDone ==
    /\ Running /\ procPc = "wgDone"
    /\ wg' = wg - 1
    /\ procPc' = "done"
    /\ UNCHANGED <<cfgVars, mainVars, fileChan, fileClosed, graphChan,
                   graphClosed, resultChan, resultClosed, readPc, readIdx,
                   procHeld, compPc, compHeld, collPc, collHeld, output,
                   panicked, sentLog, graphLog, encodedLog, writers, readers,
                   encVars, feVars>>

\* ---------------------------------------------------------- compileGraphs
\* The loop body of compileGraphs up to its send: the result it builds for
\* a graph taken from graphChan.  The tag is fmt.Sprintf("graph_%d",
\* graph.Vertices) and Error is left nil.
compileItem(item) ==
    ProcessingResult(<<"graph_", item.graph.Vertices>>,
                     CompileMIS(item.graph, h, j), NoError, item.origin)

\* A receive on graphChan that takes the newest item of the buffer.
CompRecvNewest ==
    /\ Running /\ compPc = "recv"
    /\ CanRecv(graphChan, graphClosed)
    /\ IF graphChan # <<>>
       THEN /\ graphChan' = SubSeq(graphChan, 1, Len(graphChan) - 1)
            /\ compHeld' = compileItem(graphChan[Len(graphChan)])
            /\ encodedLog' = Append(encodedLog, graphChan[Len(graphChan)].origin)
            /\ compPc' = "send"
            /\ readers' = Read("compileGraphs", "graphChan")
       ELSE /\ compPc' = "wgDone"
            /\ UNCHANGED <<graphChan, compHeld, encodedLog, readers>>
    /\ UNCHANGED <<cfgVars, mainVars, wg, fileChan, fileClosed, graphClosed,
                   resultChan, resultClosed, readPc, readIdx, procPc, procHeld,
                   collPc, collHeld, output, panicked, sentLog, graphLog,
                   writers, encVars, feVars>>

\* One iteration of for graph := range graphChan up to the send, or the end
\* of the loop when graphChan is closed and drained.
CompRecv ==
    /\ Running /\ compPc = "recv"
    /\ CanRecv(graphChan, graphClosed)
    /\ IF graphChan # <<>>
       THEN /\ graphChan' = Tail(graphChan)
            /\ compHeld' = compileItem(Head(graphChan))
            /\ encodedLog' = Append(encodedLog, Head(graphChan).origin)
            /\ compPc' = "send"
            /\ readers' = Read("compileGraphs", "graphChan")
       ELSE /\ compPc' = "wgDone"
            /\ UNCHANGED <<graphChan, compHeld, encodedLog, readers>>
    /\ UNCHANGED <<cfgVars, mainVars, wg, fileChan, fileClosed, graphClosed,
                   resultChan, resultClosed, readPc, readIdx, procPc, procHeld,
                   collPc, collHeld, output, panicked, sentLog, graphLog,
                   writers, encVars, feVars>>

\* resultChan <- ProcessingResult{FilePath: ..., IsingModel: isingModel}
CompSend ==
    /\ Running /\ compPc = "send"
    /\ CanSend(resultChan, resultClosed)
    /\ IF resultClosed
       THEN panicked' = TRUE /\ UNCHANGED <<resultChan, sentLog, writers, compPc, compHeld>>
       ELSE /\ resultChan' = Append(resultChan, compHeld)
            /\ sentLog' = Append(sentLog, Sent(compHeld, "compileGraphs"))
            /\ writers' = Wrote("compileGraphs", "resultChan")
            /\ compPc' = "recv"
            /\ compHeld' = NoItem
            /\ UNCHANGED panicked
    /\ UNCHANGED <<cfgVars, mainVars, wg, fileChan, fileClosed, graphChan,
                   graphClosed, resultClosed, readPc, readIdx, procPc,
                   procHeld, collPc, collHeld, output, graphLog, encodedLog,
                   readers, encVars, feVars>>

\* the deferred wg.Done()
CompDone ==
    /\ Running /\ compPc = "wgDone"
    /\ wg' = wg - 1
    /\ compPc' = "done"
    /\ UNCHANGED <<cfgVars, mainVars, fileChan, fileClosed, graphChan,
                   graphClosed, resultChan, resultClosed, readPc, readIdx,
                   procPc, procHeld, compHeld, collPc, collHeld, output,
                   panicked, sentLog, graphLog, encodedLog, writers, readers,
                   encVars, feVars>>

\* -------------------------------------------------------------- collector
\* json.MarshalIndent(result.IsingModel, "", "  "): encoding/json has no
\* encoding for a map keyed by [2]int, the type of IsingModel.Interactions,
\* and returns an UnsupportedTypeError whatever the map holds.
MarshalIndent(isingModel) == [output |-> <<>>, err |-> ErrMarshal]

\* What the collector prints for one result.
report(result) ==
    IF result.Error # NoError
    THEN Line("stderr", "Error processing", result.FilePath, result.Error)
    ELSE IF jsonOutput
         THEN LET m == MarshalIndent(result.IsingModel) IN
              IF m.err # NoError
              THEN Line("stderr", "Error generating JSON output", result.FilePath, m.err)
              ELSE Line("stdout", "Result for", result.FilePath, m.output)
         ELSE Line("stdout", "Result for", result.FilePath, result.IsingModel)

\* One receive of for result := range resultChan, or the end of the loop.
CollRecv ==
    /\ Running /\ collPc = "recv"
    /\ CanRecv(resultChan, resultClosed)
    /\ IF resultChan # <<>>
       THEN /\ resultChan' = Tail(resultChan)
            /\ collHeld' = Head(resultChan)
            /\ collPc' = "print"
            /\ readers' = Read("collector", "resultChan")
       ELSE /\ collPc' = "done"
            /\ UNCHANGED <<resultChan, collHeld, readers>>
    /\ UNCHANGED <<cfgVars, mainVars, wg, fileChan, fileClosed, graphChan,
                   graphClosed, resultClosed, readPc, readIdx, procPc,
                   procHeld, compPc, compHeld, output, panicked, sentLog,
                   graphLog, encodedLog, writers, encVars, feVars>>

\* The body of the collector's loop: the Fprintf or Printf for the result.
CollPrint ==
    /\ Running /\ collPc = "print"
    /\ output' = Append(output, report(collHeld))
    /\ collPc' = "recv"
    /\ collHeld' = NoItem
    /\ UNCHANGED <<cfgVars, mainVars, wg, fileChan, fileClosed, graphChan,
                   graphClosed, resultChan, resultClosed, readPc, readIdx,
                   procPc, procHeld, compPc, compHeld, panicked, sentLog,
                   graphLog, encodedLog, writers, readers, encVars, feVars>>

\* ------------------------------------------------ the k-coloring page
\* App.svelte: the page's state, and generateJSON, which rebuilds the
\* Hamiltonian {h, J} from numVertices, numColors and edges.  A template
\* string `${v}_${c}` is the pair <<v, c>>, a key `${a},${b}` of J the pair of
\* its two qubits, and the JSON text is the object it is the text of.
MaxColors == 2

DefaultNumVertices == 3
DefaultNumColors == 2

\* jsonOutput = '' before the first generateJSON.
NoHamiltonian == [generated |-> FALSE, h |-> EmptyFcn, J |-> EmptyFcn]

qubit(v, c) == <<v, c>>

\* The keys h[...] is assigned at, in loop order (lines 54-59), with the
\* inner loop running to numColors inclusive.
fieldWritesInclusive(nv, nc) ==
    IF nv > 0 /\ nc + 1 > 0
    THEN [n \in 1..(nv * (nc + 1)) |->
             qubit((n - 1) \div (nc + 1), (n - 1) % (nc + 1))]
    ELSE <<>>

\* The keys h[...] is assigned at, in loop order (lines 54-59).
fieldWrites(nv, nc) ==
    IF nv > 0 /\ nc > 0
    THEN [n \in 1..(nv * nc) |-> qubit((n - 1) \div nc, (n - 1) % nc)]
    ELSE <<>>

\* `${edge.from}_${c},${edge.to}_${c}` (line 64).
adjacencyKey(edge, c) == <<qubit(edge.from, c), qubit(edge.to, c)>>

\* The keys J[...] is assigned at by edges.forEach (lines 62-67).
adjacencyWrites(es, nc) ==
    IF nc > 0
    THEN [n \in 1..(Len(es) * nc) |->
             adjacencyKey(es[((n - 1) \div nc) + 1], (n - 1) % nc)]
    ELSE <<>>

\* The first c2 of the innermost loop, started at c1 itself.
oneHotStartSame(c1) == c1

\* let c2 = c1 + 1 (line 73).
oneHotStart(c1) == c1 + 1

\* The keys J[...] is assigned at by the three nested loops (lines 71-78).
oneHotWrites(nv, nc) ==
    IF nv > 0 /\ nc > 0
    THEN LET grid == [n \in 1..(nv * nc * nc) |->
                         <<(n - 1) \div (nc * nc),
                           ((n - 1) \div nc) % nc,
                           (n - 1) % nc>>]
             taken == SelectSeq(grid, LAMBDA t : t[3] >= oneHotStart(t[2]))
         IN  [n \in 1..Len(taken) |->
                 <<qubit(taken[n][1], taken[n][2]),
                   qubit(taken[n][1], taken[n][3])>>]
    ELSE <<>>

\* obj[key] = value for the keys from k on, in order.
RECURSIVE assignAll(_, _, _, _)
assignAll(obj, keys, k, value) ==
    IF k > Len(keys) THEN obj
    ELSE assignAll((keys[k] :> value) @@ obj, keys, k + 1, value)

generateJSON(nv, nc, es) ==
    [generated |-> TRUE,
     h |-> assignAll(EmptyFcn, fieldWrites(nv, nc), 1, -1),
     J |-> assignAll(assignAll(EmptyFcn, adjacencyWrites(es, nc), 1, 1),
                     oneHotWrites(nv, nc), 1, 1)]

FrontIdle ==
    /\ numVertices = DefaultNumVertices /\ numColors = DefaultNumColors
    /\ edges = <<>>
    /\ rydbergHamiltonian = NoHamiltonian
    /\ alerted = ""

\* ---------------------------------------------------------- batch pipeline
ChanNames == {"fileChan", "graphChan", "resultChan"}

PipeIdle ==
    /\ mainPc = "start" /\ exitCode = -1 /\ wg = 0
    /\ fileChan = <<>> /\ fileClosed = FALSE
    /\ graphChan = <<>> /\ graphClosed = FALSE
    /\ resultChan = <<>> /\ resultClosed = FALSE
    /\ readPc = "idle" /\ readIdx = 1
    /\ procPc = "idle" /\ procHeld = NoItem
    /\ compPc = "idle" /\ compHeld = NoItem
    /\ collPc = "idle" /\ collHeld = NoItem
    /\ output = <<>> /\ panicked = FALSE
    /\ sentLog = <<>> /\ graphLog = <<>> /\ encodedLog = <<>>
    /\ writers = [c \in ChanNames |-> {}]
    /\ readers = [c \in ChanNames |-> {}]

EncIdle ==
    /\ encPc = "off" /\ encGraph = ZeroGraph
    /\ encErr = NoError /\ encModel = EmptyIsingModel

\* A batch: up to MaxFiles distinct paths, each with some content, and the
\* flags.
Init ==
    /\ \E n \in 0..MaxFiles :
          /\ inputFiles = [i \in 1..n |-> i]
          /\ disk \in [1..n -> FileContents]
    /\ \E f \in FlagSettings :
          h = f.h /\ j = f.j /\ jsonOutput = f.json
    /\ PipeIdle
    /\ EncIdle
    /\ FrontIdle

Next ==
    \/ MainStart \/ MainWait \/ MainClose \/ MainPrint \/ MainReturn
    \/ ReadSend \/ ReadClose \/ ReadDone
    \/ ProcRecv \/ ProcSendResult \/ ProcSendGraph \/ ProcClose \/ ProcDone
    \/ CompRecv \/ CompSend \/ CompDone
    \/ CollRecv \/ CollPrint

Spec == Init /\ [][Next]_vars

\* The steps of each goroutine.
MainSteps == MainStart \/ MainWait \/ MainClose \/ MainPrint \/ MainReturn
ReadSteps == ReadSend \/ ReadClose \/ ReadDone
ProcSteps == ProcRecv \/ ProcSendResult \/ ProcSendGraph \/ ProcClose \/ ProcDone
CompSteps == CompRecv \/ CompSend \/ CompDone
CollSteps == CollRecv \/ CollPrint

\* The Go scheduler runs every goroutine that stays able to take a step.
FairSpec ==
    /\ Spec
    /\ WF_vars(MainSteps) /\ WF_vars(ReadSteps) /\ WF_vars(ProcSteps)
    /\ WF_vars(CompSteps) /\ WF_vars(CollSteps)

\* ------------------------------------------------------ one library call
\* validateGraph(graph), as the CLI calls it before encoding.
EncValidate ==
    /\ encPc = "validate"
    /\ encErr' = validateGraph(encGraph)
    /\ encPc' = "compile"
    /\ UNCHANGED <<pipeVars, feVars, h, j, encGraph, encModel>>

\* analog.CompileMIS(graph, h, j), as in the README example.
EncCompile ==
    /\ encPc = "compile"
    /\ encModel' = CompileMIS(encGraph, h, j)
    /\ encPc' = "done"
    /\ UNCHANGED <<pipeVars, feVars, h, j, encGraph, encErr>>

\* Parameter pairs of the library call.
EncParams == {<<-1, 2>>, <<1, 3>>}

EncodeInit ==
    /\ inputFiles = <<>> /\ disk = EmptyFcn /\ jsonOutput = FALSE
    /\ PipeIdle
    /\ \E p \in EncParams : h = p[1] /\ j = p[2]
    /\ encGraph \in Graphs
    /\ encPc = "validate"
    /\ encErr = NoError
    /\ encModel = EmptyIsingModel
    /\ FrontIdle

EncodeNext == EncValidate \/ EncCompile

EncodeSpec == EncodeInit /\ [][EncodeNext]_vars

\* ------------------------------------------------ the page's handlers
\* What a number field of the page can hold: the min attribute of the
\* inputs does not keep a typed value out of the bound variable.
VertexCounts == (-1)..MaxVertices
ColorCounts == (-1)..MaxColors
FormValues == (-1)..MaxVertices

Mounted == rydbergHamiltonian.generated

\* onMount(() => generateJSON()).
onMount ==
    /\ ~Mounted
    /\ rydbergHamiltonian' = generateJSON(numVertices, numColors, edges)
    /\ UNCHANGED <<numVertices, numColors, edges, alerted,
                   pipeVars, encVars, h, j>>

\* The vertex-count field: bind:value sets numVertices on the input event
\* and on:change runs generateJSON; the browser fires change before any
\* other handler of the page can run, so the two are one step.
changeNumVertices ==
    /\ Mounted
    /\ \E v \in VertexCounts :
          /\ numVertices' = v
          /\ rydbergHamiltonian' = generateJSON(v, numColors, edges)
    /\ UNCHANGED <<numColors, edges, alerted, pipeVars, encVars, h, j>>

\* The colour-count field, likewise.
changeNumColors ==
    /\ Mounted
    /\ \E c \in ColorCounts :
          /\ numColors' = c
          /\ rydbergHamiltonian' = generateJSON(numVertices, c, edges)
    /\ UNCHANGED <<numVertices, edges, alerted, pipeVars, encVars, h, j>>

\* addEdge without the test for an edge that is already in the list.
addEdgeNoExistsTest ==
    /\ Mounted
    /\ \E newFrom, newTo \in FormValues :
          IF \/ newFrom >= numVertices \/ newTo >= numVertices
             \/ newFrom = newTo \/ newFrom < 0 \/ newTo < 0
          THEN /\ alerted' = "Invalid vertices!"
               /\ UNCHANGED <<edges, rydbergHamiltonian>>
          ELSE IF FALSE
          THEN /\ alerted' = "Edge already exists!"
               /\ UNCHANGED <<edges, rydbergHamiltonian>>
          ELSE /\ Len(edges) < MaxEdges
               /\ edges' = Append(edges, [from |-> newFrom, to |-> newTo])
               /\ rydbergHamiltonian' =
                     generateJSON(numVertices, numColors, edges')
               /\ UNCHANGED alerted
    /\ UNCHANGED <<numVertices, numColors, pipeVars, encVars, h, j>>

\* addEdge without the test newFrom === newTo.
addEdgeNoLoopTest ==
    /\ Mounted
    /\ \E newFrom, newTo \in FormValues :
          IF \/ newFrom >= numVertices \/ newTo >= numVertices
             \/ newFrom < 0 \/ newTo < 0
          THEN /\ alerted' = "Invalid vertices!"
               /\ UNCHANGED <<edges, rydbergHamiltonian>>
          ELSE IF \E k \in DOMAIN edges :
                     \/ edges[k].from = newFrom /\ edges[k].to = newTo
                     \/ edges[k].from = newTo /\ edges[k].to = newFrom
          THEN /\ alerted' = "Edge already exists!"
               /\ UNCHANGED <<edges, rydbergHamiltonian>>
          ELSE /\ Len(edges) < MaxEdges
               /\ edges' = Append(edges, [from |-> newFrom, to |-> newTo])
               /\ rydbergHamiltonian' =
                     generateJSON(numVertices, numColors, edges')
               /\ UNCHANGED alerted
    /\ UNCHANGED <<numVertices, numColors, pipeVars, encVars, h, j>>

\* The Add Edge button, with the two vertex fields holding newFrom and
\* newTo.  The list is kept to MaxEdges edges.
addEdge ==
    /\ Mounted
    /\ \E newFrom, newTo \in FormValues :
          IF \/ newFrom >= numVertices \/ newTo >= numVertices
             \/ newFrom = newTo \/ newFrom < 0 \/ newTo < 0
          THEN /\ alerted' = "Invalid vertices!"
               /\ UNCHANGED <<edges, rydbergHamiltonian>>
          ELSE IF \E k \in DOMAIN edges :
                     \/ edges[k].from = newFrom /\ edges[k].to = newTo
                     \/ edges[k].from = newTo /\ edges[k].to = newFrom
          THEN /\ alerted' = "Edge already exists!"
               /\ UNCHANGED <<edges, rydbergHamiltonian>>
          ELSE /\ Len(edges) < MaxEdges
               /\ edges' = Append(edges, [from |-> newFrom, to |-> newTo])
               /\ rydbergHamiltonian' =
                     generateJSON(numVertices, numColors, edges')
               /\ UNCHANGED alerted
    /\ UNCHANGED <<numVertices, numColors, pipeVars, encVars, h, j>>

\* A Remove button of the edge list.
removeEdge ==
    /\ Mounted
    /\ \E index \in DOMAIN edges :
          /\ edges' = [n \in 1..(Len(edges) - 1) |->
                          IF n < index THEN edges[n] ELSE edges[n + 1]]
          /\ rydbergHamiltonian' = generateJSON(numVertices, numColors, edges')
    /\ UNCHANGED <<numVertices, numColors, alerted, pipeVars, encVars, h, j>>

\* The page as loaded, before onMount has run.
FrontInit ==
    /\ inputFiles = <<>> /\ disk = EmptyFcn /\ jsonOutput = FALSE
    /\ h = -1 /\ j = 2
    /\ PipeIdle
    /\ EncIdle
    /\ FrontIdle

FrontNext ==
    onMount \/ changeNumVertices \/ changeNumColors \/ addEdge \/ removeEdge

FrontSpec == FrontInit /\ [][FrontNext]_vars

\* ------------------------------------------------------------- properties
Range(seq) == {seq[k] : k \in DOMAIN seq}
Min(a, b) == IF a < b THEN a ELSE b
Max(a, b) == IF a < b THEN b ELSE a
EdgeSet(graph) == Range(graph.Edges)

\* The same unordered pair at two positions of the edge list.
HasDuplicateEdge(graph) ==
    \E a, b \in DOMAIN graph.Edges :
        /\ a < b
        /\ {graph.Edges[a][1], graph.Edges[a][2]}
              = {graph.Edges[b][1], graph.Edges[b][2]}

\* The MIS encoding of a graph: one field h per vertex, one coupling J per
\* edge under the key (min, max).
MISModel(graph, hh, jj) ==
    [Spins |-> graph.Vertices,
     Interactions |->
        [isNil |-> FALSE,
         kv |-> [key \in {<<Min(e[1], e[2]), Max(e[1], e[2])>> : e \in EdgeSet(graph)}
                    |-> jj]],
     ExternalField |->
        [isNil |-> FALSE, kv |-> [i \in 0..(graph.Vertices - 1) |-> hh]]]

\* The file at a path reads, parses and passes validateGraph.
FileOk(path) ==
    disk[path].readable /\ validateGraph(disk[path].graph) = NoError

\* The entries of sentLog that descend from a path.
SentFor(path) == {k \in DOMAIN sentLog : sentLog[k].result.origin = path}

\* The lines the collector printed.
CollectorTexts ==
    {"Error processing", "Error generating JSON output", "Result for"}
Reported == {k \in DOMAIN output : output[k].text \in CollectorTexts}

\* main is past wg.Wait and close(resultChan).
ResultQueueClosed == resultClosed

\* C1: when resultChan is closed, exactly len(inputFiles) results have been
\* sent on it, exactly one for each input file.
C1_OneResultPerInstance ==
    ResultQueueClosed =>
        /\ Len(sentLog) = Len(inputFiles)
        /\ \A i \in DOMAIN inputFiles :
              Cardinality(SentFor(inputFiles[i])) = 1

C1_Witness ==
    /\ ResultQueueClosed
    /\ Len(inputFiles) = 2
    /\ \E k \in DOMAIN sentLog : sentLog[k].result.Error # NoError
    /\ \E k \in DOMAIN sentLog : sentLog[k].result.Error = NoError

\* C2: with exactly one input failing validateGraph (all inputs readable),
\* the closed pipeline has sent len(inputFiles) results, exactly one with an
\* Error, and every other result carries the MIS model of its own graph.
C2_OneInvalidAmongN ==
    ( /\ ResultQueueClosed
      /\ \A p \in Range(inputFiles) : disk[p].readable
      /\ Cardinality({p \in Range(inputFiles) :
                         validateGraph(disk[p].graph) # NoError}) = 1 )
    =>
    ( /\ Len(sentLog) = Len(inputFiles)
      /\ Cardinality({k \in DOMAIN sentLog :
                         sentLog[k].result.Error # NoError}) = 1
      /\ \A k \in DOMAIN sentLog :
            sentLog[k].result.Error = NoError =>
               sentLog[k].result.IsingModel
                  = MISModel(disk[sentLog[k].result.origin].graph, h, j) )

\* The statement of C2 restricted to batches without a duplicated edge.
C2_WithoutDuplicateEdges ==
    (\A p \in Range(inputFiles) : ~HasDuplicateEdge(disk[p].graph))
        => C2_OneInvalidAmongN

\* C3: once main has returned, every result sent on resultChan has been
\* received and printed by the collector.
C3_AllReportedAtExit ==
    mainPc = "done" =>
        /\ resultChan = <<>>
        /\ collPc # "print"
        /\ Cardinality(Reported) = Len(sentLog)

\* C4: every result sent to the collector carries the path of the input
\* file it descends from, so results of two input files never share a tag.
C4_TaggedWithSource ==
    /\ \A k \in DOMAIN sentLog :
          sentLog[k].result.FilePath = <<"file", sentLog[k].result.origin>>
    /\ \A k, l \in DOMAIN sentLog :
          sentLog[k].result.origin # sentLog[l].result.origin
             => sentLog[k].result.FilePath # sentLog[l].result.FilePath

\* C5: the result of a validated graph with a duplicated edge has a non-nil
\* Error.
C5_DuplicateEdgeFails ==
    \A k \in DOMAIN sentLog :
        LET o == sentLog[k].result.origin IN
        (FileOk(o) /\ HasDuplicateEdge(disk[o].graph))
            => sentLog[k].result.Error # NoError

\* C6: a file that fails to read, parse or validate is never sent on
\* graphChan nor passed to CompileMIS; its result is an error sent by
\* processGraphs itself, which goes on to the remaining files: it leaves its
\* loop only when every such file has its result.
C6_FailuresBypassEncoder ==
    /\ \A o \in Range(graphLog) \cup Range(encodedLog)
                \cup {graphChan[k].origin : k \in DOMAIN graphChan} :
          FileOk(o)
    /\ \A k \in DOMAIN sentLog :
          ~FileOk(sentLog[k].result.origin) =>
             /\ sentLog[k].by = "processGraphs"
             /\ sentLog[k].result.Error # NoError
    /\ procPc \in {"close", "wgDone", "done"} =>
          \A p \in Range(inputFiles) :
             IF FileOk(p) THEN p \in Range(graphLog) ELSE SentFor(p) # {}

C6_Witness ==
    /\ procPc = "done"
    /\ Len(inputFiles) = 2
    /\ ~FileOk(inputFiles[1])
    /\ FileOk(inputFiles[2])
    /\ encodedLog = <<inputFiles[2]>>
    /\ Len(sentLog) = 2

\* C7: each of the three channels has at most one sending stage and at most
\* one receiving stage.
C7_SingleWriterSingleReader ==
    \A c \in ChanNames :
        Cardinality(writers[c]) <= 1 /\ Cardinality(readers[c]) <= 1

\* C7 (amended): fileChan and graphChan have one sending stage each and
\* every channel has one receiving stage; resultChan is sent on by
\* processGraphs and compileGraphs, and by no other stage.
C7_Amended ==
    /\ writers["fileChan"] \subseteq {"readFiles"}
    /\ writers["graphChan"] \subseteq {"processGraphs"}
    /\ writers["resultChan"] \subseteq {"processGraphs", "compileGraphs"}
    /\ readers["fileChan"] \subseteq {"processGraphs"}
    /\ readers["graphChan"] \subseteq {"compileGraphs"}
    /\ readers["resultChan"] \subseteq {"collector"}

C7_Witness ==
    /\ writers["resultChan"] = {"processGraphs", "compileGraphs"}
    /\ writers["fileChan"] = {"readFiles"}
    /\ writers["graphChan"] = {"processGraphs"}
    /\ readers["resultChan"] = {"collector"}
    /\ mainPc = "done"

\* The terminal state: the three stages are finished, wg.Wait has returned,
\* resultChan is closed and main has returned.
Terminal ==
    /\ mainPc = "done"
    /\ readPc = "done" /\ procPc = "done" /\ compPc = "done"
    /\ wg = 0
    /\ resultClosed

\* C8: under fair scheduling, a started pipeline reaches the terminal state;
\* no stage stays blocked.
C8_PipelineTerminates == (mainPc = "wait") ~> Terminal

C8_Witness == Terminal /\ Len(inputFiles) = 2 /\ Len(sentLog) = 2

\* C9: validateGraph returns nil exactly for a positive vertex count with
\* every endpoint in [0, Vertices) and no edge with equal endpoints; the
\* error is the vertex-count error when Vertices <= 0, an endpoint error only
\* for a graph with an out-of-range endpoint, a loop error only for a graph
\* with an edge of equal endpoints.
OutOfRange(graph, e) ==
    e[1] \notin 0..(graph.Vertices - 1) \/ e[2] \notin 0..(graph.Vertices - 1)

C9_ValidateGraph ==
    encPc # "validate" =>
        LET g == encGraph
            anyOut == \E e \in EdgeSet(g) : OutOfRange(g, e)
            anyLoop == \E e \in EdgeSet(g) : e[1] = e[2]
        IN /\ (encErr = NoError) <=> (g.Vertices > 0 /\ ~anyOut /\ ~anyLoop)
           /\ encErr.kind \in {"nil", "vertices", "edge", "loop"}
           /\ (encErr.kind = "vertices") <=> (g.Vertices <= 0)
           /\ encErr.kind = "edge" => anyOut
           /\ encErr.kind = "loop" => anyLoop
           /\ (g.Vertices > 0 /\ anyOut /\ ~anyLoop) => encErr.kind = "edge"
           /\ (g.Vertices > 0 /\ anyLoop /\ ~anyOut) => encErr.kind = "loop"

C9_Witness ==
    /\ encPc = "done"
    /\ encErr.kind = "loop"
    /\ Len(encGraph.Edges) = 2
    /\ encGraph.Edges[1][1] # encGraph.Edges[1][2]

\* C10: for a graph that passed validateGraph and lists no edge twice,
\* CompileMIS returns Spins = Vertices, the field h on exactly the keys
\* 0..Vertices-1, and the coupling J on exactly the keys (min, max) of the
\* edges.
C10_CompileMIS ==
    (encPc = "done" /\ encErr = NoError /\ ~HasDuplicateEdge(encGraph)) =>
        /\ encModel.Spins = encGraph.Vertices
        /\ DOMAIN encModel.ExternalField.kv = 0..(encGraph.Vertices - 1)
        /\ \A i \in DOMAIN encModel.ExternalField.kv :
              encModel.ExternalField.kv[i] = h
        /\ DOMAIN encModel.Interactions.kv
              = {<<Min(e[1], e[2]), Max(e[1], e[2])>> : e \in EdgeSet(encGraph)}
        /\ \A key \in DOMAIN encModel.Interactions.kv :
              encModel.Interactions.kv[key] = j
        /\ encModel = MISModel(encGraph, h, j)

C10_Witness ==
    /\ encPc = "done" /\ encErr = NoError /\ ~HasDuplicateEdge(encGraph)
    /\ Len(encGraph.Edges) = 2
    /\ encGraph.Edges[1][1] > encGraph.Edges[1][2]
    /\ encGraph.Edges[2][1] < encGraph.Edges[2][2]
    /\ Cardinality(DOMAIN encModel.Interactions.kv) = 2

\* C11: CompileMIS on a graph that lists an unordered edge twice returns the
\* zero IsingModel: Spins 0, no field entry and no interaction entry, and
\* nothing of what it wrote before it met the duplicate.
C11_DuplicateLeavesNoPartialModel ==
    (encPc = "done" /\ HasDuplicateEdge(encGraph)) =>
        /\ encModel.Spins = 0
        /\ DOMAIN encModel.ExternalField.kv = {}
        /\ DOMAIN encModel.Interactions.kv = {}
        /\ encModel.ExternalField.isNil /\ encModel.Interactions.isNil

C11_Witness ==
    /\ encPc = "done" /\ encErr = NoError
    /\ encGraph.Vertices = 3
    /\ Len(encGraph.Edges) = 2
    /\ encGraph.Edges[1] = <<0, 2>> /\ encGraph.Edges[2] = <<2, 0>>
    /\ encModel.Spins = 0

\* C12: the value CompileMIS returns for a graph with a duplicated edge is
\* one value, the zero IsingModel, and no graph without a duplicated edge
\* gets that value: also the graph with no vertex and no edge, whose model
\* has Spins 0 and no entry but made (non-nil) maps.
C12_FailureDistinctFromSuccess ==
    encPc = "done" =>
        IF HasDuplicateEdge(encGraph)
        THEN encModel = EmptyIsingModel
        ELSE encModel # EmptyIsingModel

C12_Witness ==
    /\ encPc = "done"
    /\ encGraph = [Vertices |-> 0, Edges |-> <<>>]
    /\ encModel.Spins = 0
    /\ DOMAIN encModel.Interactions.kv = {}
    /\ DOMAIN encModel.ExternalField.kv = {}
    /\ ~encModel.Interactions.isNil

\* C13: in the model of a graph that passed validateGraph, every interaction
\* key (i, j) has 0 <= i < j < Spins, every field key k has 0 <= k < Spins,
\* and no two keys are the same unordered pair.
C13_KeysCanonicalAndInRange ==
    (encPc = "done" /\ encErr = NoError) =>
        /\ \A key \in DOMAIN encModel.Interactions.kv :
              0 <= key[1] /\ key[1] < key[2] /\ key[2] < encModel.Spins
        /\ \A k \in DOMAIN encModel.ExternalField.kv :
              0 <= k /\ k < encModel.Spins
        /\ \A a, b \in DOMAIN encModel.Interactions.kv :
              {a[1], a[2]} = {b[1], b[2]} => a = b

C13_Witness ==
    /\ encPc = "done" /\ encErr = NoError
    /\ Len(encGraph.Edges) = 2
    /\ encGraph.Edges[1][1] > encGraph.Edges[1][2]
    /\ DOMAIN encModel.Interactions.kv = {<<0, 2>>, <<1, 2>>}

\* C14: with -json, the model of every successful result is serialized:
\* the collector prints it on stdout as a result and never reports an error
\* of json.MarshalIndent.
C14_JsonSerializationSucceeds ==
    /\ \A k \in DOMAIN output : output[k].text # "Error generating JSON output"
    /\ (collPc = "print" /\ jsonOutput /\ collHeld.Error = NoError) =>
          MarshalIndent(collHeld.IsingModel).err = NoError

\* C16: main exits with code 1 before any goroutine is started and before
\* any file is read exactly when there is no input file or j <= 0; a run
\* that ends otherwise ends with code 0.
BadArguments == Len(inputFiles) = 0 \/ j <= 0
NothingStarted ==
    /\ readPc = "idle" /\ procPc = "idle" /\ compPc = "idle" /\ collPc = "idle"
    /\ wg = 0
    /\ fileChan = <<>> /\ graphChan = <<>> /\ resultChan = <<>>
    /\ sentLog = <<>> /\ graphLog = <<>> /\ encodedLog = <<>>
    /\ \A c \in ChanNames : readers[c] = {} /\ writers[c] = {}

C16_ExitCodes ==
    /\ BadArguments => (mainPc \in {"start", "exited"} /\ NothingStarted)
    /\ mainPc = "exited" => (exitCode = 1 /\ BadArguments)
    /\ mainPc = "done" => (exitCode = 0 /\ ~BadArguments)
    /\ mainPc \notin {"exited", "done"} => exitCode = -1
    /\ (mainPc # "start" /\ ~BadArguments) => mainPc # "exited"

C16_Witness ==
    /\ mainPc = "exited" /\ exitCode = 1
    /\ Len(inputFiles) = 2 /\ j <= 0
    /\ NothingStarted

C16_WitnessZero ==
    /\ mainPc = "done" /\ exitCode = 0
    /\ \E k \in DOMAIN sentLog : sentLog[k].result.Error # NoError

\* The page shows what generateJSON returns for its present state: every
\* handler that changes numVertices, numColors or edges ends with the call.
FrontFresh ==
    Mounted => rydbergHamiltonian = generateJSON(numVertices, numColors, edges)

Vertices == 0..(numVertices - 1)
Colors == 0..(numColors - 1)

\* J holds a positive entry for the two qubits, in one order or the other.
HasPenalty(a, b) ==
    LET J == rydbergHamiltonian.J IN
    \/ <<a, b>> \in DOMAIN J /\ J[<<a, b>>] > 0
    \/ <<b, a>> \in DOMAIN J /\ J[<<b, a>>] > 0

IsOneHotPair(key) ==
    \E v \in Vertices : \E c1, c2 \in Colors :
        c1 < c2 /\ key = <<<<v, c1>>, <<v, c2>>>>

IsAdjacencyPair(key) ==
    \E k \in DOMAIN edges : \E c \in Colors :
        {key[1], key[2]} = {<<edges[k].from, c>>, <<edges[k].to, c>>}

\* C17: J of the k-coloring Hamiltonian has a positive entry on
\* ((v,c1),(v,c2)) for every vertex v and colours c1 < c2, a positive entry
\* on the pair ((i,c),(j,c)) for every edge (i,j) and colour c, and no entry
\* that is neither.
C17_OneHotAndAdjacencyOnly ==
    Mounted =>
        /\ \A v \in Vertices : \A c1, c2 \in Colors :
              c1 < c2 =>
                 /\ <<<<v, c1>>, <<v, c2>>>> \in DOMAIN rydbergHamiltonian.J
                 /\ rydbergHamiltonian.J[<<<<v, c1>>, <<v, c2>>>>] > 0
        /\ \A k \in DOMAIN edges : \A c \in Colors :
              HasPenalty(<<edges[k].from, c>>, <<edges[k].to, c>>)
        /\ \A key \in DOMAIN rydbergHamiltonian.J :
              IsOneHotPair(key) \/ IsAdjacencyPair(key)

C17_Witness ==
    /\ Mounted
    /\ numVertices = 3 /\ numColors = 2
    /\ Len(edges) = 2
    /\ edges[1] = [from |-> 2, to |-> 0]
    /\ Cardinality(DOMAIN rydbergHamiltonian.J) = 7

\* C18: h of the k-coloring Hamiltonian has exactly the keys (v, c) with
\* v a vertex and c a colour, numVertices * numColors of them when neither
\* count is negative, and every one of them holds a negative field.
C18_OneSpinPerVertexColour ==
    Mounted =>
        /\ DOMAIN rydbergHamiltonian.h = Vertices \X Colors
        /\ \A q \in DOMAIN rydbergHamiltonian.h : rydbergHamiltonian.h[q] < 0
        /\ (numVertices >= 0 /\ numColors >= 0) =>
              Cardinality(DOMAIN rydbergHamiltonian.h) = numVertices * numColors

C18_Witness ==
    /\ Mounted
    /\ numVertices = 3 /\ numColors = 2
    /\ edges # <<>>
    /\ Cardinality(DOMAIN rydbergHamiltonian.h) = 6

\* C19: every key of J has the lower spin first: the vertex of its first
\* qubit is the smaller one, or the vertices are equal and its colour is.
C19_KeysCanonical ==
    \A key \in DOMAIN rydbergHamiltonian.J :
        \/ key[1][1] < key[2][1]
        \/ key[1][1] = key[2][1] /\ key[1][2] < key[2][2]

\* C20: no Hamiltonian is generated for a colour count <= 0: while
\* numColors <= 0 the page holds no model, the empty one included.
C20_NonPositiveColorCountFails ==
    numColors <= 0 => ~rydbergHamiltonian.generated

\* C21: every endpoint of every edge the page holds lies in
\* [0, numVertices), whatever edges were added and removed and whatever the
\* vertex-count field was set to.
C21_EdgesWithinVertexCount ==
    \A k \in DOMAIN edges :
        /\ 0 <= edges[k].from /\ edges[k].from < numVertices
        /\ 0 <= edges[k].to /\ edges[k].to < numVertices

\* C23: no send meets a closed channel and no channel is closed twice;
\* fileChan is closed by readFiles after its last send, graphChan by
\* processGraphs once fileChan is closed and empty and its last item is
\* dealt with, resultChan by main once readFiles, processGraphs and
\* compileGraphs are done; a run that gets past close(resultChan) has
\* closed all three.
C23_QueuesClosedOnceAfterLastSend ==
    /\ ~panicked
    /\ readPc = "send" => ~fileClosed
    /\ fileClosed => (readPc \in {"wgDone", "done"} /\ readIdx > Len(inputFiles))
    /\ procPc \in {"recv", "send", "close"} => ~graphClosed
    /\ graphClosed =>
          /\ procPc \in {"wgDone", "done"} /\ procHeld = NoItem
          /\ fileClosed /\ fileChan = <<>>
    /\ mainPc \in {"start", "wait", "close"} => ~resultClosed
    /\ resultClosed =>
          /\ readPc = "done" /\ procPc = "done" /\ compPc = "done" /\ wg = 0
          /\ fileClosed /\ graphClosed /\ graphChan = <<>>

C23_Witness ==
    /\ resultClosed /\ fileClosed /\ graphClosed
    /\ Len(sentLog) = 2
    /\ sentLog[1].by = "compileGraphs" /\ sentLog[2].by = "processGraphs"

\* C24: each channel holds at most len(inputFiles) items, and a stage that
\* stands at a send finds room in the buffer, also while the collector has
\* taken nothing.
C24_SendsNeverBlock ==
    /\ Len(fileChan) <= Len(inputFiles)
    /\ Len(graphChan) <= Len(inputFiles)
    /\ Len(resultChan) <= Len(inputFiles)
    /\ (readPc = "send" /\ readIdx <= Len(inputFiles)) =>
          Len(fileChan) < chanCap
    /\ (procPc = "send" /\ procHeld.to = "graphChan") =>
          Len(graphChan) < chanCap
    /\ (procPc = "send" /\ procHeld.to = "resultChan") =>
          Len(resultChan) < chanCap
    /\ compPc = "send" => Len(resultChan) < chanCap

C24_Witness ==
    /\ mainPc = "close" /\ wg = 0
    /\ Len(inputFiles) = 2
    /\ Len(resultChan) = 2
    /\ collPc = "recv" /\ readers["resultChan"] = {}

\* C25: of two results sent on resultChan, the one sent first descends from
\* the file submitted first, unless it is a failure result and the other a
\* compiled one: compiled results keep the order of submission, failure
\* results keep it, and only a failure overtakes an earlier file's model.
C25_ResultOrder ==
    \A a, b \in DOMAIN sentLog :
        (a < b /\ sentLog[a].result.origin > sentLog[b].result.origin) =>
            /\ sentLog[a].result.Error # NoError
            /\ sentLog[a].by = "processGraphs"
            /\ sentLog[b].result.Error = NoError
            /\ sentLog[b].by = "compileGraphs"

C25_Witness ==
    /\ Len(sentLog) = 2
    /\ sentLog[1].result.origin = 2 /\ sentLog[1].result.Error # NoError
    /\ sentLog[2].result.origin = 1 /\ sentLog[2].result.Error = NoError

C25_WitnessInOrder ==
    /\ Len(sentLog) = 2
    /\ sentLog[1].result.origin = 1 /\ sentLog[1].by = "compileGraphs"
    /\ sentLog[2].result.origin = 2 /\ sentLog[2].by = "compileGraphs"

\* C27: validateGraph reports a vertex count <= 0 whatever the edges are;
\* otherwise it reports the first edge, in the order of the list, that is
\* out of range or a self-loop, as out of range when it is both.
C27_FirstFailureReported ==
    encPc # "validate" =>
        LET g == encGraph
            Offending(k) ==
                OutOfRange(g, g.Edges[k]) \/ g.Edges[k][1] = g.Edges[k][2]
        IN /\ g.Vertices <= 0 => encErr = ErrVertices
           /\ g.Vertices > 0 =>
                 \A k \in DOMAIN g.Edges :
                     (Offending(k) /\ \A m \in 1..(k - 1) : ~Offending(m)) =>
                         encErr = IF OutOfRange(g, g.Edges[k])
                                  THEN ErrEdgeIndices(g, g.Edges[k])
                                  ELSE ErrLoop(g.Edges[k])

C27_Witness ==
    /\ encPc # "validate"
    /\ encGraph = [Vertices |-> 2, Edges |-> <<<<0, 1>>, <<2, 2>>>>]
    /\ encErr.kind = "edge"
    /\ encErr = ErrEdgeIndices(encGraph, <<2, 2>>)

Pos(n) == IF n > 0 THEN n ELSE 0

\* C26: one generateJSON call writes no key of J twice: J has as many keys
\* as the call makes assignments, one per edge and colour and one per vertex
\* and pair of colours, each key holds the value of one assignment, which is
\* also the sum of one addition, and no key of an edge is a key of a vertex.
C26_InteractionKeysWrittenOnce ==
    Mounted =>
        /\ Cardinality(DOMAIN rydbergHamiltonian.J) =
              Len(edges) * Pos(numColors)
              + Pos(numVertices) * ((Pos(numColors) * (Pos(numColors) - 1)) \div 2)
        /\ \A key \in DOMAIN rydbergHamiltonian.J : rydbergHamiltonian.J[key] = 1
        /\ \A k \in DOMAIN edges : \A c \in Colors :
              ~IsOneHotPair(<<<<edges[k].from, c>>, <<edges[k].to, c>>>>)

C26_Witness ==
    /\ Mounted
    /\ numVertices = 3 /\ numColors = 2
    /\ Len(edges) = 2
    /\ edges[1].from < edges[1].to /\ edges[2].from > edges[2].to
    /\ edges[1].to = edges[2].to
    /\ Cardinality(DOMAIN rydbergHamiltonian.J) = 7

NoLoopNoDuplicate ==
    /\ \A k \in DOMAIN edges : edges[k].from # edges[k].to
    /\ \A a, b \in DOMAIN edges :
          {edges[a].from, edges[a].to} = {edges[b].from, edges[b].to} => a = b

\* C28: the edge list never holds a self-loop or two edges over one
\* unordered pair, and a step that raises an alert (a rejected addEdge)
\* leaves the edge list and the generated Hamiltonian as they were.
C28_EdgeListWellFormed ==
    /\ []NoLoopNoDuplicate
    /\ [][alerted' # alerted =>
             (edges' = edges /\ rydbergHamiltonian' = rydbergHamiltonian)]_vars

C28_Witness ==
    /\ alerted = "Edge already exists!"
    /\ Len(edges) = 2
    /\ edges[1] = [from |-> 0, to |-> 1]
    /\ edges[2] = [from |-> 2, to |-> 1]
    /\ rydbergHamiltonian = generateJSON(numVertices, numColors, edges)

====
